---- MODULE Spec2Model ----
(***************************************************************************)
(* A model of src/browsers_manager.py: the BrowserManager engine           *)
(* (package-manager selection, detection of installed browsers, the        *)
(* install fallback chain and the uninstall dispatch) together with the    *)
(* host it drives through `which` probes and shell commands.               *)
(*                                                                         *)
(* Names of packages, snaps, flatpak applications and executables are      *)
(* sequences of tokens: "google-chrome-stable" is <<"google", "chrome",    *)
(* "stable">>.  Python's `a in text` and grep's match are the infix test   *)
(* on these sequences, and `name.split('-')[0]` is the first token.        *)
(***************************************************************************)
EXTENDS Naturals, Sequences, FiniteSets, TLC

VARIABLES
    host,               \* the machine: executables, package databases, listings, files
    os_info,            \* self.os_info['distro_family']
    package_manager,    \* self.package_manager['name'], chosen at construction
    installed_browsers, \* self.installed_browsers: browser id -> record
    last,               \* the last engine call: its arguments, result and shell log
    ext,                \* how many changes were made to the host behind the program's back
    calls,              \* how many engine calls were made
    proc                \* the process: where main is, and how it has exited

vars == <<host, os_info, package_manager, installed_browsers, last, ext, calls, proc>>

-----------------------------------------------------------------------------
(* Bounds of the model *)

\* the operations are invoked for the first NumBrowsers entries of BrowserOrder
NumBrowsers == 3
\* changes made to the host by something other than this program
MaxExternal == 1
\* engine calls (install, uninstall, refresh) in one run
MaxCalls == 2
\* interrupts (Ctrl-C) the user sends during one run
MaxInterrupts == 2

-----------------------------------------------------------------------------
(* The registry: BrowserManager.__init__ *)

Families == {"debian", "ubuntu", "fedora", "arch", "opensuse", "default"}

\* a variant of the 'package' dict whose 'default' list is empty
PkWithoutDefault(deb, ubu, fed, arc, sus, def) ==
    [debian |-> deb, ubuntu |-> ubu, fedora |-> fed, arch |-> arc,
     opensuse |-> sus, default |-> <<>>]

Pk(deb, ubu, fed, arc, sus, def) ==
    [debian |-> deb, ubuntu |-> ubu, fedora |-> fed, arch |-> arc,
     opensuse |-> sus, default |-> def]

browsers ==
    ( "firefox" :> [package |-> Pk(<< <<"firefox","esr">>, <<"firefox">> >>,
                                   << <<"firefox">> >>, << <<"firefox">> >>,
                                   << <<"firefox">> >>, << <<"MozillaFirefox">> >>,
                                   << <<"firefox">>, <<"firefox","esr">> >>),
                    snap |-> <<"firefox">>, flatpak |-> <<"org.mozilla.firefox">>] ) @@
    ( "chromium" :> [package |-> Pk(<< <<"chromium">>, <<"chromium","browser">> >>,
                                    << <<"chromium","browser">> >>, << <<"chromium">> >>,
                                    << <<"chromium">> >>, << <<"chromium">> >>,
                                    << <<"chromium">>, <<"chromium","browser">> >>),
                     snap |-> <<"chromium">>, flatpak |-> <<"org.chromium.Chromium">>] ) @@
    ( "chrome" :> [package |-> Pk(<< <<"google","chrome","stable">> >>,
                                  << <<"google","chrome","stable">> >>,
                                  << <<"google","chrome","stable">> >>,
                                  << <<"google","chrome">> >>,
                                  << <<"google","chrome","stable">> >>,
                                  << <<"google","chrome","stable">>, <<"google","chrome">> >>),
                   snap |-> <<"google","chrome">>, flatpak |-> <<"com.google.Chrome">>] ) @@
    ( "tor-browser" :> [package |-> Pk(<< <<"torbrowser","launcher">> >>,
                                       << <<"torbrowser","launcher">> >>,
                                       << <<"torbrowser","launcher">> >>,
                                       << <<"tor","browser">> >>,
                                       << <<"torbrowser","launcher">> >>,
                                       << <<"torbrowser","launcher">>, <<"tor","browser">> >>),
                        snap |-> <<"tor","browser">>,
                        flatpak |-> <<"com.github.micahflee.torbrowser-launcher">>] ) @@
    ( "brave" :> [package |-> Pk(<< <<"brave","browser">> >>, << <<"brave","browser">> >>,
                                 << <<"brave","browser">> >>, << <<"brave","bin">> >>,
                                 << <<"brave","browser">> >>,
                                 << <<"brave","browser">>, <<"brave","bin">> >>),
                  snap |-> <<"brave">>, flatpak |-> <<"com.brave.Browser">>] ) @@
    ( "vivaldi" :> [package |-> Pk(<< <<"vivaldi","stable">> >>, << <<"vivaldi","stable">> >>,
                                   << <<"vivaldi","stable">> >>, << <<"vivaldi">> >>,
                                   << <<"vivaldi">> >>,
                                   << <<"vivaldi","stable">>, <<"vivaldi">> >>),
                    snap |-> <<"vivaldi">>, flatpak |-> <<"com.vivaldi.Vivaldi">>] ) @@
    ( "opera" :> [package |-> Pk(<< <<"opera","stable">> >>, << <<"opera","stable">> >>,
                                 << <<"opera","stable">> >>, << <<"opera">> >>,
                                 << <<"opera">> >>,
                                 << <<"opera","stable">>, <<"opera">> >>),
                  snap |-> <<"opera">>, flatpak |-> <<"com.opera.Opera">>] ) @@
    ( "edge" :> [package |-> Pk(<< <<"microsoft","edge","stable">> >>,
                                << <<"microsoft","edge","stable">> >>,
                                << <<"microsoft","edge","stable">> >>,
                                << <<"microsoft","edge","stable","bin">> >>,
                                << <<"microsoft","edge">> >>,
                                << <<"microsoft","edge","stable">>, <<"microsoft","edge">> >>),
                 snap |-> <<"microsoft","edge">>, flatpak |-> <<"com.microsoft.Edge">>] ) @@
    ( "falkon" :> [package |-> Pk(<< <<"falkon">> >>, << <<"falkon">> >>, << <<"falkon">> >>,
                                  << <<"falkon">> >>, << <<"falkon">> >>, << <<"falkon">> >>),
                   snap |-> <<"falkon">>, flatpak |-> <<"org.kde.falkon">>] ) @@
    ( "midori" :> [package |-> Pk(<< <<"midori">> >>, << <<"midori">> >>, << <<"midori">> >>,
                                  << <<"midori">> >>, << <<"midori">> >>, << <<"midori">> >>),
                   snap |-> <<"midori">>, flatpak |-> <<"org.midori_browser.Midori">>] )

\* the registry's keys in the order of the dict literal
RegistryOrder ==
    <<"firefox", "chromium", "chrome", "tor-browser", "brave", "vivaldi", "opera",
      "edge", "falkon", "midori">>

\* the order in which the model draws the browsers the operations are called with:
\* a browser with two candidates first, then the two vendor browsers
BrowserOrder ==
    <<"firefox", "chrome", "brave", "chromium", "opera", "tor-browser", "vivaldi",
      "edge", "falkon", "midori">>

Min(a, b) == IF a < b THEN a ELSE b

CalledBrowsers == {BrowserOrder[i] : i \in 1..Min(NumBrowsers, Len(BrowserOrder))}

Range(s) == {s[i] : i \in 1..Len(s)}

\* browser_info['package'].get(distro_family, browser_info['package']['default'])
PackageNames(b, family) ==
    IF family \in DOMAIN browsers[b].package
    THEN browsers[b].package[family]
    ELSE browsers[b].package["default"]

-----------------------------------------------------------------------------
(* The host: what `which`, the shell commands and os.path.exists observe *)

NativeManagers == <<"apt", "dnf", "yum", "pacman", "zypper">>

Tools == {"apt", "dnf", "yum", "pacman", "zypper", "snap", "flatpak", "yay", "pamac"}

\* the paths detect_installed_browsers tests, as sequences of components
FirefoxPath == << <<"opt">>, <<"firefox">>, <<"firefox">> >>

chrome_paths ==
    << << <<"usr">>, <<"bin">>, <<"google","chrome">> >>,
       << <<"usr">>, <<"bin">>, <<"chromium">> >>,
       << <<"usr">>, <<"bin">>, <<"chromium","browser">> >>,
       << <<"snap">>, <<"bin">>, <<"chromium">> >>,
       << <<"var">>, <<"lib">>, <<"flatpak">>, <<"app">>, <<"org.chromium.Chromium">> >> >>

\* `a in b` on strings, grep's match: a is a run of consecutive tokens of b
Infix(a, b) ==
    /\ Len(a) <= Len(b)
    /\ \E i \in 0..(Len(b) - Len(a)) : SubSeq(b, i + 1, i + Len(a)) = a

\* the package database a native manager's install, remove and query verbs work on
Database(pm) ==
    CASE pm = "apt" -> "dpkg"
      [] pm \in {"dnf", "yum", "zypper"} -> "rpm"
      [] pm = "pacman" -> "pacman"
      [] OTHER -> "none"

\* a host on which no package is installed, with the given executables and files
\* and the distribution id that distro.id() reads from its release file
FreshHost(tools, paths, distro_id) ==
    [tools |-> tools, dpkg |-> {}, rpm |-> {}, pacman |-> {},
     snaps |-> {}, flatpaks |-> {}, paths |-> paths, bins |-> {}, tmp |-> {},
     repos |-> {}, distro_id |-> distro_id]

InstalledIn(h, db) ==
    CASE db = "dpkg" -> h.dpkg
      [] db = "rpm" -> h.rpm
      [] db = "pacman" -> h.pacman
      [] OTHER -> {}

\* the executable an installed native package puts on the PATH: the name the
\* source probes for after installing it (brave-bin is probed as `brave`)
Executable(p) == IF p = <<"brave", "bin">> THEN <<"brave">> ELSE p

\* command_exists: `which command` exits 0
command_exists(h, command) ==
    \/ \E t \in h.tools : command = <<t>>
    \/ command \in h.bins
    \/ \E p \in h.dpkg \cup h.rpm \cup h.pacman : Executable(p) = command

-----------------------------------------------------------------------------
(* detect_installed_browsers *)

\* the value of a key the record does not have
None == <<>>

\* {**browser_info, 'installation_type': t, 'installed_package': p}
Record(b, t, p) ==
    [installation_type |-> t, installed_package |-> p,
     package |-> browsers[b].package, snap |-> browsers[b].snap,
     flatpak |-> browsers[b].flatpak]

\* installed[k] = v
Put(d, k, v) == (k :> v) @@ d

\* the presence query of the active manager: dpkg-query ... | grep -c 'ok installed',
\* rpm -q, pacman -Q
Present(h, pm, package_name) == package_name \in InstalledIn(h, Database(pm))

\* a variant of the loop that goes on to the last candidate that is present
RECURSIVE LastPresent(_, _, _)
LastPresent(h, pm, package_names) ==
    IF package_names = <<>> THEN None
    ELSE IF Present(h, pm, package_names[Len(package_names)])
    THEN package_names[Len(package_names)]
    ELSE LastPresent(h, pm, SubSeq(package_names, 1, Len(package_names) - 1))

\* the candidates of the for loop that are present; the loop breaks at the first
RECURSIVE FirstPresent(_, _, _)
FirstPresent(h, pm, package_names) ==
    IF package_names = <<>> THEN None
    ELSE IF Present(h, pm, Head(package_names)) THEN Head(package_names)
    ELSE FirstPresent(h, pm, Tail(package_names))

\* lines 298-330: the loop over the registry with the active manager's query
SystemStep(h, pm, family) ==
    LET found(b) == FirstPresent(h, pm, PackageNames(b, family))
        hit == {b \in DOMAIN browsers : Database(pm) # "none" /\ found(b) # None}
    IN  [b \in hit |-> Record(b, "system", found(b))]

\* run_command("snap list", capture_output=True): the names of the listing
SnapList(h) == h.snaps

\* run_command("flatpak list", capture_output=True)
FlatpakList(h) == h.flatpaks

\* `identifier in listing`
InListing(identifier, listing) == \E w \in listing : Infix(identifier, w)

\* lines 332-338: every browser whose snap name is in the listing is (re)written
SnapStep(h, installed) ==
    IF "snap" \in h.tools /\ SnapList(h) # {}
    THEN LET hit == {b \in DOMAIN browsers : InListing(browsers[b].snap, SnapList(h))}
         IN  [b \in hit \cup DOMAIN installed |->
                 IF b \in hit THEN Record(b, "snap", None) ELSE installed[b]]
    ELSE installed

\* lines 340-346: every browser whose application id is in the listing is (re)written
FlatpakStep(h, installed) ==
    IF "flatpak" \in h.tools /\ FlatpakList(h) # {}
    THEN LET hit == {b \in DOMAIN browsers : InListing(browsers[b].flatpak, FlatpakList(h))}
         IN  [b \in hit \cup DOMAIN installed |->
                 IF b \in hit THEN Record(b, "flatpak", None) ELSE installed[b]]
    ELSE installed

\* a variant that records the Mozilla binaries whatever the earlier steps found
FirefoxManualAlways(h, installed) ==
    IF FirefoxPath \in h.paths
    THEN Put(installed, "firefox", Record("firefox", "manual", <<"firefox", "mozilla">>))
    ELSE installed

\* lines 349-351
FirefoxManualStep(h, installed) ==
    IF "firefox" \notin DOMAIN installed /\ FirefoxPath \in h.paths
    THEN Put(installed, "firefox", Record("firefox", "manual", <<"firefox", "mozilla">>))
    ELSE installed

\* os.path.basename(path)
Basename(path) == path[Len(path)]

\* lines 361-365: the loop over chrome_paths
RECURSIVE ChromeManualStep(_, _, _)
ChromeManualStep(h, installed, paths) ==
    IF paths = <<>> THEN installed
    ELSE LET path == Head(paths)
             browser_id == IF \E i \in 1..Len(path) : Infix(<<"google", "chrome">>, path[i])
                           THEN "chrome" ELSE "chromium"
             next == IF path \in h.paths /\ browser_id \notin DOMAIN installed
                     THEN Put(installed, browser_id,
                              Record(browser_id, "manual", Basename(path)))
                     ELSE installed
         IN  ChromeManualStep(h, next, Tail(paths))

detect_installed_browsers(h, pm, family) ==
    ChromeManualStep(h,
        FirefoxManualStep(h,
            FlatpakStep(h,
                SnapStep(h,
                    SystemStep(h, pm, family)))),
        chrome_paths)

-----------------------------------------------------------------------------
(* run_command: the shell commands the engine issues and what they do *)

\* a command line: the program with its verb, and the names it is given
Cmd(prog, args) == [prog |-> prog, args |-> args]

\* a line of the log: the command and whether it exited 0
Entry(c, r) == [prog |-> c.prog, args |-> c.args, r |-> r]

\* the line the log keeps for one whole run of detect_installed_browsers
DetectMark == Entry(Cmd("detect_installed_browsers", <<>>), TRUE)

\* the package inside the downloaded google-chrome-stable_current_amd64.deb
ChromeDeb == <<"google", "chrome", "stable">>

\* the names of `args` are all delivered by the remote source (repository, store,
\* download server) during this call: `ok` is the set of names that are
Delivered(args, ok) == \A i \in 1..Len(args) : args[i] \in ok

\* self.package_manager['remove'] without its flags
RemoveVerb(pm) ==
    CASE pm = "apt" -> "apt remove"
      [] pm = "dnf" -> "dnf remove"
      [] pm = "yum" -> "yum remove"
      [] pm = "pacman" -> "pacman -R"
      [] pm = "zypper" -> "zypper remove"
      [] pm = "snap" -> "snap remove"
      [] pm = "flatpak" -> "flatpak uninstall"

\* every native package name of the registry
KnownPackages ==
    UNION {Range(browsers[b].package[f]) : b \in DOMAIN browsers, f \in Families}

\* what a command does to the host, and whether it exits 0
Outcome(h, c, ok) ==
    LET fail == [h |-> h, r |-> FALSE]
        done(hh) == [h |-> hh, r |-> TRUE]
        add(db) ==
            CASE db = "dpkg" -> done([h EXCEPT !.dpkg = @ \cup Range(c.args)])
              [] db = "rpm" -> done([h EXCEPT !.rpm = @ \cup Range(c.args)])
              [] db = "pacman" -> done([h EXCEPT !.pacman = @ \cup Range(c.args)])
        del(db) ==
            CASE db = "dpkg" -> done([h EXCEPT !.dpkg = @ \ Range(c.args)])
              [] db = "rpm" -> done([h EXCEPT !.rpm = @ \ Range(c.args)])
              [] db = "pacman" -> done([h EXCEPT !.pacman = @ \ Range(c.args)])
              [] OTHER -> fail
        has(t) == t \in h.tools
    IN
    CASE c.prog = "apt-get update" -> IF has("apt") THEN done(h) ELSE fail
      [] c.prog = "apt-get install" ->
            IF has("apt") /\ Delivered(c.args, ok) THEN add("dpkg") ELSE fail
      [] c.prog = "apt-get install -f" -> IF has("apt") THEN done(h) ELSE fail
      [] c.prog \in {"dpkg -i", "apt install ./deb"} ->
            IF has("apt") /\ "deb" \in h.tmp
            THEN done([h EXCEPT !.dpkg = @ \cup {ChromeDeb}]) ELSE fail
      [] c.prog = "dpkg -l | grep -q" ->
            IF \E p \in h.dpkg : Infix(c.args[1], p) THEN done(h) ELSE fail
      [] c.prog = "dnf install" ->
            IF has("dnf") /\ Delivered(c.args, ok) THEN add("rpm") ELSE fail
      [] c.prog = "alien --to-rpm" ->
            IF has("dnf") /\ "deb" \in h.tmp /\ <<"setup">> \in ok
            THEN done([h EXCEPT !.tmp = @ \cup {"rpm"}]) ELSE fail
      [] c.prog = "dnf install ./rpm" ->
            IF has("dnf") /\ "rpm" \in h.tmp
            THEN done([h EXCEPT !.rpm = @ \cup {ChromeDeb}]) ELSE fail
      [] c.prog = "find -name *.rpm" -> IF "rpm" \in h.tmp THEN done(h) ELSE fail
      [] c.prog = "rpm -q" -> IF c.args[1] \in h.rpm THEN done(h) ELSE fail
      [] c.prog = "pacman -S" ->
            IF has("pacman") /\ Delivered(c.args, ok) THEN add("pacman") ELSE fail
      [] c.prog = "pacman -Q" -> IF c.args[1] \in h.pacman THEN done(h) ELSE fail
      [] c.prog = "yay -S" ->
            IF has("yay") /\ Delivered(c.args, ok) THEN add("pacman") ELSE fail
      [] c.prog \in {"pamac install", "pamac build"} ->
            IF has("pamac") /\ Delivered(c.args, ok) THEN add("pacman") ELSE fail
      [] c.prog = "makepkg -si" ->
            IF has("pacman") /\ Delivered(c.args, ok) THEN add("pacman") ELSE fail
      [] c.prog = "zypper install" ->
            IF has("zypper") /\ Delivered(c.args, ok) THEN add("rpm") ELSE fail
      [] c.prog = "flatpak install" ->
            IF has("flatpak") /\ Delivered(c.args, ok)
            THEN done([h EXCEPT !.flatpaks = @ \cup Range(c.args)]) ELSE fail
      [] c.prog = "snap install" ->
            IF has("snap") /\ Delivered(c.args, ok)
            THEN done([h EXCEPT !.snaps = @ \cup Range(c.args)]) ELSE fail
      [] c.prog = "wget" ->
            IF <<"chrome.deb">> \in ok
            THEN done([h EXCEPT !.tmp = @ \cup {"deb"}]) ELSE fail
      [] c.prog = "rm -rf" -> done([h EXCEPT !.tmp = {}])
      \* the native remove verbs: apt refuses a word that names no package, pacman
      \* and zypper one that is not installed; dnf and yum skip such a word and exit 0
      [] c.prog = "apt remove" ->
            IF has("apt") /\ <<"remove">> \in ok
               /\ \A i \in 1..Len(c.args) : c.args[i] \in KnownPackages
            THEN del("dpkg") ELSE fail
      [] c.prog \in {"dnf remove", "yum remove"} ->
            IF (\E t \in {"dnf", "yum"} : has(t) /\ c.prog = RemoveVerb(t)) /\ <<"remove">> \in ok
            THEN del("rpm") ELSE fail
      [] c.prog = "zypper remove" ->
            IF has("zypper") /\ <<"remove">> \in ok /\ Range(c.args) \subseteq h.rpm
            THEN del("rpm") ELSE fail
      [] c.prog = "pacman -R" ->
            IF has("pacman") /\ <<"remove">> \in ok /\ Range(c.args) \subseteq h.pacman
            THEN del("pacman") ELSE fail
      [] c.prog = "snap remove" ->
            IF has("snap") /\ <<"remove">> \in ok /\ Range(c.args) \subseteq h.snaps
            THEN done([h EXCEPT !.snaps = @ \ Range(c.args)]) ELSE fail
      [] c.prog = "flatpak uninstall" ->
            IF has("flatpak") /\ <<"remove">> \in ok /\ Range(c.args) \subseteq h.flatpaks
            THEN done([h EXCEPT !.flatpaks = @ \ Range(c.args)]) ELSE fail
      \* the steps that fetch a signing key
      [] c.prog \in {"curl keyring", "rpm --import"} ->
            IF <<"key">> \in ok THEN done(h) ELSE fail
      \* the steps that write a vendor's repository entry: Brave's list file under
      \* /etc/apt/sources.list.d, Brave's dnf repository, Google's zypper repository
      [] c.prog \in {"tee sources.list.d", "dnf config-manager --add-repo", "zypper addrepo"} ->
            IF <<"setup">> \in ok THEN done([h EXCEPT !.repos = @ \cup {c.prog}]) ELSE fail
      \* the index and dependency steps, whose only effect is on what the later
      \* install command can be delivered
      [] OTHER -> IF <<"setup">> \in ok THEN done(h) ELSE fail

-----------------------------------------------------------------------------
(* One call on the engine: the host, self.installed_browsers and the log of  *)
(* what the call ran.  m.pm and m.family are self.package_manager['name']    *)
(* and self.os_info['distro_family'].                                        *)

Machine(h, pm, family, installed) ==
    [h |-> h, pm |-> pm, family |-> family, installed |-> installed, log |-> <<>>]

\* self.run_command(command): the command runs, its exit status is the result
Ran(m, c, o) == [m |-> [m EXCEPT !.h = o.h, !.log = Append(@, Entry(c, o.r))], r |-> o.r]

Sh(m, c, ok) == Ran(m, c, Outcome(m.h, c, ok))

\* self.command_exists(name)
Which(m, name) ==
    [m |-> [m EXCEPT !.log = Append(@, Entry(Cmd("which", <<name>>),
                                             command_exists(m.h, name)))],
     r |-> command_exists(m.h, name)]

\* a variant of the sequence that stops at the first command that fails
RECURSIVE ShUntilFailure(_, _, _)
ShStopOrGoOn(s, rest, ok) == IF s.r THEN ShUntilFailure(s.m, rest, ok) ELSE s.m

ShUntilFailure(m, cs, ok) ==
    IF cs = <<>> THEN m ELSE ShStopOrGoOn(Sh(m, Head(cs), ok), Tail(cs), ok)

\* the commands of a sequence whose results the source does not look at
RECURSIVE ShAll(_, _, _)
ShAll(m, cs, ok) ==
    IF cs = <<>> THEN m ELSE ShAll(Sh(m, Head(cs), ok).m, Tail(cs), ok)

\* a variant that adds what the detection finds to the records self already holds
RefreshOverPrevious(m) ==
    [m EXCEPT !.installed = detect_installed_browsers(m.h, m.pm, m.family) @@ m.installed,
              !.log = Append(@, DetectMark)]

\* self.installed_browsers = self.detect_installed_browsers()
Refresh(m) ==
    [m EXCEPT !.installed = detect_installed_browsers(m.h, m.pm, m.family),
              !.log = Append(@, DetectMark)]

Return(m, ret) == [m |-> m, ret |-> ret]

-----------------------------------------------------------------------------
(* uninstall_browser *)

FamilyOrder == <<"debian", "ubuntu", "fedora", "arch", "opensuse", "default">>

RECURSIVE Flatten(_)
Flatten(ss) == IF ss = <<>> THEN <<>> ELSE Head(ss) \o Flatten(Tail(ss))

\* str(list) as the shell splits it: ['a', 'b'] is the words `[a,` and `b]` + close
ListWords(names, close) ==
    [i \in 1..Len(names) |->
        (IF i = 1 THEN <<"[">> ELSE <<>>) \o names[i]
            \o (IF i = Len(names) THEN <<"]", close>> ELSE <<",">>)]

\* f"{browser_info['package']}": the dict of candidate lists formatted into the
\* command line, as the words the shell hands to the manager
ShellWords(package) ==
    Flatten([i \in 1..Len(FamilyOrder) |->
        << (IF i = 1 THEN <<"{">> ELSE <<>>) \o <<FamilyOrder[i], ":">> >>
            \o ListWords(package[FamilyOrder[i]],
                         IF i = Len(FamilyOrder) THEN "}" ELSE ",")])

\* lines 786-799: the command for the record's installation_type
uninstall_command(m, browser_info) ==
    CASE browser_info.installation_type = "system" ->
            Cmd(RemoveVerb(m.pm), ShellWords(browser_info.package))
      [] browser_info.installation_type = "snap" ->
            Cmd("snap remove", <<browser_info.snap>>)
      [] browser_info.installation_type = "flatpak" ->
            Cmd("flatpak uninstall", <<browser_info.flatpak>>)


\* a variant that tries the snap backend when the command of the record failed
RemovedOrNextBackend(s) ==
    IF s.r THEN Return(Refresh(s.m), TRUE)
    ELSE Return(Sh(s.m, Cmd("snap remove", <<>>), {}).m, FALSE)

\* lines 801-809: the installed set is recomputed when the command succeeded
Removed(s) == IF s.r THEN Return(Refresh(s.m), TRUE) ELSE Return(s.m, FALSE)

\* a variant that deletes the files of a 'manual' record
UninstallDeletesManual(m, browser_id, ok) ==
    IF browser_id \notin DOMAIN m.installed THEN Return(m, FALSE)
    ELSE IF m.installed[browser_id].installation_type \notin {"system", "snap", "flatpak"}
    THEN Removed(Sh(m, Cmd("rm -rf", <<m.installed[browser_id].installed_package>>), ok))
    ELSE Removed(Sh(m, uninstall_command(m, m.installed[browser_id]), ok))

\* a variant that looks again for a browser it does not find in the installed set
UninstallDetectsAbsent(m, browser_id, ok) ==
    IF browser_id \notin DOMAIN m.installed THEN Return(Refresh(m), FALSE)
    ELSE IF m.installed[browser_id].installation_type \notin {"system", "snap", "flatpak"}
    THEN Return(m, FALSE)
    ELSE Removed(Sh(m, uninstall_command(m, m.installed[browser_id]), ok))

uninstall_browser(m, browser_id, ok) ==
    IF browser_id \notin DOMAIN m.installed THEN Return(m, FALSE)
    ELSE IF m.installed[browser_id].installation_type \notin {"system", "snap", "flatpak"}
    THEN Return(m, FALSE)
    ELSE Removed(Sh(m, uninstall_command(m, m.installed[browser_id]), ok))

-----------------------------------------------------------------------------
(* install_browser *)

\* which of the four distribution branches of the system path is taken
\* (lines 411/442/466/485 and 638/651/663/689); "generic" is the final else
Branch(m) ==
    IF m.family \in {"debian", "ubuntu"} \/ m.pm \in {"apt", "apt-get"} THEN "apt"
    ELSE IF m.family = "fedora" \/ m.pm \in {"dnf", "yum"} THEN "dnf"
    ELSE IF m.family = "arch" \/ m.pm = "pacman" THEN "pacman"
    ELSE IF m.family = "opensuse" \/ m.pm = "zypper" THEN "zypper"
    ELSE "generic"

\* package_name.split('-')[0]
FirstToken(package_name) == <<Head(package_name)>>

\* the install command of a for loop of lines 640-699
InstallCandidate(m, branch, package_name, ok) ==
    CASE branch = "apt" ->
            Sh(Sh(m, Cmd("apt-get update", <<>>), ok).m,
               Cmd("apt-get install", <<package_name>>), ok)
      [] branch = "dnf" -> Sh(m, Cmd("dnf install", <<package_name>>), ok)
      [] branch = "pacman" -> Sh(m, Cmd("pacman -S", <<package_name>>), ok)
      [] branch = "zypper" -> Sh(m, Cmd("zypper install", <<package_name>>), ok)

\* the query of the post-install check
CheckQuery(branch, package_name) ==
    CASE branch = "apt" -> Cmd("dpkg -l | grep -q", <<package_name>>)
      [] branch = "pacman" -> Cmd("pacman -Q", <<package_name>>)
      [] OTHER -> Cmd("rpm -q", <<package_name>>)

\* `self.command_exists(...) or self.run_command(query)`
ProbeOrQuery(probe, branch, package_name, ok) ==
    IF probe.r THEN probe ELSE Sh(probe.m, CheckQuery(branch, package_name), ok)

\* one pass of the loop: install the candidate, then the post-install check
TryCandidate(m, branch, package_name, ok) ==
    ProbeOrQuery(
        Which(InstallCandidate(m, branch, package_name, ok).m,
              IF branch = "apt" THEN package_name ELSE FirstToken(package_name)),
        branch, package_name, ok)

\* a variant of the loop that starts with the last candidate of the list
RECURSIVE LastFirstLoop(_, _, _, _)
LastFirstChecked(t, branch, rest, ok) ==
    IF t.r THEN Return(Refresh(t.m), TRUE) ELSE LastFirstLoop(t.m, branch, rest, ok)

LastFirstLoop(m, branch, package_names, ok) ==
    IF package_names = <<>> \/ branch = "generic" THEN Return(m, FALSE)
    ELSE LastFirstChecked(
            TryCandidate(m, branch, package_names[Len(package_names)], ok),
            branch, SubSeq(package_names, 1, Len(package_names) - 1), ok)

\* the for loop over package_names: the first candidate that passes the check
\* refreshes the installed set and returns True
RECURSIVE NativeLoop(_, _, _, _)
Checked(t, branch, rest, ok) ==
    IF t.r THEN Return(Refresh(t.m), TRUE) ELSE NativeLoop(t.m, branch, rest, ok)

NativeLoop(m, branch, package_names, ok) ==
    IF package_names = <<>> \/ branch = "generic" THEN Return(m, FALSE)
    ELSE Checked(TryCandidate(m, branch, Head(package_names), ok),
                 branch, Tail(package_names), ok)

FlathubAdd == Cmd("flatpak remote-add --if-not-exists flathub", <<>>)

\* a variant that recomputes the installed set after the snap install whatever
\* its result
SnapInstalledRefreshing(si) == Return(Refresh(si.m), si.r)

\* a variant that runs the snap install a second time when it has failed
SnapInstalledOrRetried(si) ==
    IF si.r THEN Return(Refresh(si.m), TRUE)
    ELSE Return(Sh(si.m, Cmd("snap install", si.m.log[Len(si.m.log)].args), {}).m, FALSE)

\* lines 534-542, 615-620, 714-722: the snap alternative, then the failure
SnapInstalled(si) ==
    IF si.r THEN Return(Refresh(si.m), TRUE) ELSE Return(si.m, FALSE)

SnapProbed(s, browser_id, ok) ==
    IF s.r
    THEN SnapInstalled(Sh(s.m, Cmd("snap install", <<browsers[browser_id].snap>>), ok))
    ELSE Return(s.m, FALSE)

SnapAlternative(m, browser_id, ok) == SnapProbed(Which(m, <<"snap">>), browser_id, ok)

\* a variant that returns True after the flatpak install without recomputing
FlatpakInstalledNoRefresh(fi, browser_id, ok) ==
    IF fi.r THEN Return(fi.m, TRUE) ELSE SnapAlternative(fi.m, browser_id, ok)

\* lines 526-532, 607-613, 706-712: the flatpak alternative comes first
FlatpakInstalled(fi, browser_id, ok) ==
    IF fi.r THEN Return(Refresh(fi.m), TRUE) ELSE SnapAlternative(fi.m, browser_id, ok)

FlatpakProbed(f, browser_id, ok) ==
    IF f.r
    THEN FlatpakInstalled(
            Sh(Sh(f.m, FlathubAdd, ok).m,
               Cmd("flatpak install", <<browsers[browser_id].flatpak>>), ok),
            browser_id, ok)
    ELSE SnapAlternative(f.m, browser_id, ok)

\* a variant that tries the snap install before the flatpak install
SnapFirstAlternatives(m, browser_id, ok) ==
    LET s == Which(m, <<"snap">>)
        si == Sh(s.m, Cmd("snap install", <<browsers[browser_id].snap>>), ok)
        afterSnap == IF s.r THEN si.m ELSE s.m
        f == Which(afterSnap, <<"flatpak">>)
        fi == Sh(Sh(f.m, FlathubAdd, ok).m,
                 Cmd("flatpak install", <<browsers[browser_id].flatpak>>), ok)
    IN  IF s.r /\ si.r THEN Return(Refresh(si.m), TRUE)
        ELSE IF f.r /\ fi.r THEN Return(Refresh(fi.m), TRUE)
        ELSE Return(IF f.r THEN fi.m ELSE f.m, FALSE)

\* the alternatives tried after the system path did not succeed
Alternatives(m, browser_id, ok) == FlatpakProbed(Which(m, <<"flatpak">>), browser_id, ok)

\* a variant that goes on to the alternatives whatever the system path returned
AlternativesAfterAll(n, browser_id, ok) == Alternatives(n.m, browser_id, ok)

\* a result of the system path is final when True
OrAlternatives(n, browser_id, ok) ==
    IF n.ret THEN n ELSE Alternatives(n.m, browser_id, ok)

\* lines 636-726: a browser without special handling
InstallStandard(m, browser_id, ok) ==
    OrAlternatives(NativeLoop(m, Branch(m), PackageNames(browser_id, m.family), ok),
                   browser_id, ok)

GoogleChromeStable == <<"google", "chrome", "stable">>
GoogleChrome == <<"google", "chrome">>
BraveBrowser == <<"brave", "browser">>
BraveBin == <<"brave", "bin">>

\* lines 433-438: verify, else `apt install` the file and verify again
ChromeAptVerified(w, ok) ==
    IF w.r THEN w
    ELSE Which(Sh(w.m, Cmd("apt install ./deb", <<>>), ok).m, GoogleChromeStable)

\* lines 449-452
ChromeRpmFound(rpm_file, ok) ==
    IF rpm_file.r
    THEN Which(Sh(rpm_file.m, Cmd("dnf install ./rpm", <<>>), ok).m, GoogleChromeStable)
    ELSE rpm_file

\* lines 470-481 and 586-595: yay, else pamac, else a manual build from the AUR
AurPamac(p, pamac_verb, package_name, ok) ==
    IF p.r THEN Sh(p.m, Cmd(pamac_verb, <<package_name>>), ok).m
    ELSE ShAll(p.m, << Cmd("git clone aur", <<package_name>>),
                       Cmd("makepkg -si", <<package_name>>) >>, ok)

AurYay(y, pamac_verb, package_name, ok) ==
    IF y.r THEN Sh(y.m, Cmd("yay -S", <<package_name>>), ok).m
    ELSE AurPamac(Which(y.m, <<"pamac">>), pamac_verb, package_name, ok)

Aur(m, pamac_verb, package_name, ok) ==
    AurYay(Which(m, <<"yay">>), pamac_verb, package_name, ok)

\* lines 411-511: step 2 of the Chrome installation; the result is `success`
ChromeNative(m, ok) ==
    CASE Branch(m) = "apt" ->
            ChromeAptVerified(
                Which(ShAll(m, << Cmd("apt-get update && apt-get install deps", <<>>),
                                  Cmd("dpkg -i", <<>>),
                                  Cmd("apt-get install -f", <<>>) >>, ok),
                      GoogleChromeStable), ok)
      [] Branch(m) = "dnf" ->
            ChromeRpmFound(
                Sh(ShAll(m, << Cmd("dnf install alien", <<>>),
                               Cmd("alien --to-rpm", <<>>) >>, ok),
                   Cmd("find -name *.rpm", <<>>), ok), ok)
      [] Branch(m) = "pacman" ->
            Which(Aur(m, "pamac install", GoogleChrome, ok), GoogleChrome)
      [] Branch(m) = "zypper" ->
            Which(ShAll(m, << Cmd("rpm --import", <<>>),
                              Cmd("zypper addrepo", <<>>),
                              Cmd("zypper refresh", <<>>),
                              Cmd("zypper install", <<GoogleChromeStable>>) >>, ok),
                  GoogleChromeStable)
      [] OTHER ->
            Which(ShAll(m, << Cmd("dpkg -i", <<>>),
                              Cmd("apt-get install -f", <<>>) >>, ok),
                  GoogleChromeStable)

\* lines 513-542: the clean-up, then the result or the alternatives
ChromeFinish(success, c, ok) ==
    IF success THEN Return(Refresh(c.m), TRUE) ELSE Alternatives(c.m, "chrome", ok)

ChromeCleanup(n, ok) == ChromeFinish(n.r, Sh(n.m, Cmd("rm -rf", <<>>), ok), ok)

\* a variant of the Chrome installation that imports Google's signing key
\* before it downloads the package
InstallChromeKeyFirst(m, ok) ==
    IF <<"tmpdir">> \notin ok THEN Return(m, FALSE)
    ELSE ChromeCleanup(
            ChromeNative(Sh(Sh(m, Cmd("rpm --import", <<>>), ok).m,
                            Cmd("wget", <<>>), ok).m, ok), ok)

\* lines 384-546: os.makedirs/os.chdir raise when the temporary directory cannot
\* be made (the outer except returns False); run_command never raises, so curl
\* is not reached
InstallChrome(m, ok) ==
    IF <<"tmpdir">> \notin ok THEN Return(m, FALSE)
    ELSE ChromeCleanup(ChromeNative(Sh(m, Cmd("wget", <<>>), ok).m, ok), ok)

\* lines 553-603: the repository set-up of Brave; the result is `success`
BraveNative(m, ok) ==
    CASE Branch(m) = "apt" ->
            Which(ShAll(m, << Cmd("apt-get install apt-transport-https curl gnupg", <<>>),
                              Cmd("curl keyring", <<>>),
                              Cmd("dpkg --print-architecture", <<>>),
                              Cmd("tee sources.list.d", <<>>),
                              Cmd("apt-get update", <<>>),
                              Cmd("apt-get install", <<BraveBrowser>>) >>, ok),
                  BraveBrowser)
      [] Branch(m) = "dnf" ->
            Which(ShAll(m, << Cmd("dnf config-manager --add-repo", <<>>),
                              Cmd("rpm --import", <<>>),
                              Cmd("dnf install", <<BraveBrowser>>) >>, ok),
                  BraveBrowser)
      [] Branch(m) = "pacman" ->
            Which(Aur(m, "pamac build", BraveBin, ok), <<"brave">>)
      [] OTHER -> [m |-> m, r |-> FALSE]

\* lines 605-628
BraveFinish(n, ok) ==
    IF n.r THEN Return(Refresh(n.m), TRUE) ELSE Alternatives(n.m, "brave", ok)

\* lines 549-632
InstallBrave(m, ok) == BraveFinish(BraveNative(m, ok), ok)

\* lines 728-741: the result of the snap command is not looked at
SnapChosen(s, browser_id, ok) ==
    IF s.r
    THEN Return(Refresh(Sh(s.m, Cmd("snap install", <<browsers[browser_id].snap>>), ok).m),
                TRUE)
    ELSE Return(s.m, FALSE)

\* a variant that tries the other backends when snap is not on the host
InstallSnapOrAlternatives(m, browser_id, ok) ==
    IF command_exists(m.h, <<"snap">>)
    THEN SnapChosen(Which(m, <<"snap">>), browser_id, ok)
    ELSE Alternatives(m, browser_id, ok)

InstallSnap(m, browser_id, ok) == SnapChosen(Which(m, <<"snap">>), browser_id, ok)

\* a variant that installs from Flathub without adding the remote
FlatpakChosenNoRemote(f, browser_id, ok) ==
    IF f.r
    THEN Return(Refresh(Sh(f.m, Cmd("flatpak install", <<browsers[browser_id].flatpak>>),
                           ok).m),
                TRUE)
    ELSE Return(f.m, FALSE)

\* lines 743-757: the results of the flatpak commands are not looked at
FlatpakChosen(f, browser_id, ok) ==
    IF f.r
    THEN Return(Refresh(ShAll(f.m,
                    << FlathubAdd,
                       Cmd("flatpak install", <<browsers[browser_id].flatpak>>) >>, ok)),
                TRUE)
    ELSE Return(f.m, FALSE)

InstallFlatpak(m, browser_id, ok) == FlatpakChosen(Which(m, <<"flatpak">>), browser_id, ok)

\* a variant that probes for the requested backend before it looks the id up
InstallProbesFirst(m, browser_id, installation_type, ok) ==
    IF browser_id \notin DOMAIN browsers
    THEN Return(Which(m, <<IF installation_type = "system" THEN m.pm
                           ELSE installation_type>>).m, FALSE)
    ELSE CASE installation_type = "system" ->
                 IF browser_id = "chrome" THEN InstallChrome(m, ok)
                 ELSE IF browser_id = "brave" THEN InstallBrave(m, ok)
                 ELSE InstallStandard(m, browser_id, ok)
           [] installation_type = "snap" -> InstallSnap(m, browser_id, ok)
           [] installation_type = "flatpak" -> InstallFlatpak(m, browser_id, ok)
           [] OTHER -> Return(m, FALSE)

install_browser(m, browser_id, installation_type, ok) ==
    IF browser_id \notin DOMAIN browsers THEN Return(m, FALSE)
    ELSE CASE installation_type = "system" ->
                 IF browser_id = "chrome" THEN InstallChrome(m, ok)
                 ELSE IF browser_id = "brave" THEN InstallBrave(m, ok)
                 ELSE InstallStandard(m, browser_id, ok)
           [] installation_type = "snap" -> InstallSnap(m, browser_id, ok)
           [] installation_type = "flatpak" -> InstallFlatpak(m, browser_id, ok)
           [] OTHER -> Return(m, FALSE)

-----------------------------------------------------------------------------
(* get_system_info: the distribution family *)

\* A distribution id is a sequence of tokens ("opensuse-leap" has two); `up`
\* tells whether the token is spelled with upper-case letters ("Ubuntu").
Tok(w, up) == [w |-> w, up |-> up]

\* the id spelled in lower case with the given words
Id(words) == [i \in 1..Len(words) |-> Tok(words[i], FALSE)]

\* str.lower()
Lower(id) == [i \in 1..Len(id) |-> Tok(id[i].w, FALSE)]

\* lines 219-230: the if/elif chain over the lower-cased id
FamilyOf(distro_id) ==
    IF distro_id \in {Id(<<"debian">>), Id(<<"raspbian">>)} THEN "debian"
    ELSE IF distro_id \in {Id(<<"ubuntu">>), Id(<<"linuxmint">>), Id(<<"pop">>),
                           Id(<<"elementary">>)} THEN "ubuntu"
    ELSE IF distro_id \in {Id(<<"fedora">>), Id(<<"rhel">>), Id(<<"centos">>),
                           Id(<<"rocky">>), Id(<<"almalinux">>)} THEN "fedora"
    ELSE IF distro_id \in {Id(<<"arch">>), Id(<<"manjaro">>), Id(<<"endeavouros">>)}
    THEN "arch"
    ELSE IF distro_id \in {Id(<<"opensuse", "leap">>), Id(<<"opensuse", "tumbleweed">>),
                           Id(<<"suse">>)} THEN "opensuse"
    ELSE "default"

\* a variant that compares the id as the host spells it
FamilyOfSpelledId(h) == FamilyOf(h.distro_id)

\* system_info['distro_family'] of get_system_info
get_system_info(h) == FamilyOf(Lower(h.distro_id))

-----------------------------------------------------------------------------
(* detect_package_manager *)

RECURSIVE FirstTool(_, _)
FirstTool(h, names) ==
    IF names = <<>> THEN "none"
    ELSE IF command_exists(h, <<Head(names)>>) THEN Head(names)
    ELSE FirstTool(h, Tail(names))

\* a variant that probes for flatpak before snap
DetectFlatpakFirst(h) ==
    IF FirstTool(h, NativeManagers) # "none" THEN FirstTool(h, NativeManagers)
    ELSE IF command_exists(h, <<"flatpak">>) THEN "flatpak"
    ELSE IF command_exists(h, <<"snap">>) THEN "snap"
    ELSE "apt"

detect_package_manager(h) ==
    IF FirstTool(h, NativeManagers) # "none" THEN FirstTool(h, NativeManagers)
    ELSE IF command_exists(h, <<"snap">>) THEN "snap"
    ELSE IF command_exists(h, <<"flatpak">>) THEN "flatpak"
    ELSE "apt"

-----------------------------------------------------------------------------
(* The state machine *)

\* the hosts a run starts on: the distribution family, the executables found and
\* the browsers unpacked by hand outside any package manager
HostProfiles ==
    { [distro_id |-> Id(<<"ubuntu">>), tools |-> {"apt", "snap", "flatpak"}, paths |-> {}],
      [distro_id |-> Id(<<"debian">>), tools |-> {"apt", "flatpak"}, paths |-> {FirefoxPath}],
      [distro_id |-> Id(<<"fedora">>), tools |-> {"dnf", "yum", "flatpak"}, paths |-> {}],
      [distro_id |-> Id(<<"centos">>), tools |-> {"yum"}, paths |-> {}],
      [distro_id |-> Id(<<"manjaro">>), tools |-> {"pacman", "yay", "snap"},
       paths |-> {chrome_paths[1]}],
      [distro_id |-> Id(<<"opensuse", "leap">>), tools |-> {"zypper", "flatpak", "snap"},
       paths |-> {}],
      [distro_id |-> Id(<<"gentoo">>), tools |-> {"snap"}, paths |-> {}] }

InstallationTypes == {"system", "snap", "flatpak"}

\* what the remote sources may or may not deliver during one install call
InstallKeys(browser_id, installation_type) ==
    IF browser_id \notin DOMAIN browsers THEN {}
    ELSE CASE installation_type = "snap" -> {browsers[browser_id].snap}
           [] installation_type = "flatpak" -> {browsers[browser_id].flatpak}
           [] OTHER ->
                {browsers[browser_id].snap, browsers[browser_id].flatpak}
                    \cup Range(PackageNames(browser_id, os_info))
                    \cup (IF browser_id = "chrome"
                          THEN {<<"tmpdir">>, <<"chrome.deb">>, <<"setup">>, <<"key">>,
                                GoogleChrome, GoogleChromeStable}
                          ELSE {})
                    \cup (IF browser_id = "brave"
                          THEN {<<"setup">>, <<"key">>, BraveBrowser, BraveBin}
                          ELSE {})

Self == Machine(host, package_manager, os_info, installed_browsers)

Idle == [op |-> "init", browser |-> "", type |-> "", ret |-> FALSE, log |-> <<>>]

\* the process inside display_main_menu, at the prompt of the main menu: `code`
\* is the exit status once it has exited, `farewell` whether the three lines
\* of the goodbye message were printed, `swallowed` whether an interrupt was
\* caught inside the call that is running
AtMenu ==
    [pc |-> "menu", browser |-> "", type |-> "", code |-> "none", farewell |-> FALSE,
     interrupts |-> 0, swallowed |-> FALSE]

\* control is back in the loop of display_main_menu
BackAtMenu(p) ==
    [p EXCEPT !.pc = "menu", !.browser = "", !.type = "", !.swallowed = FALSE]

Init ==
    \E p \in HostProfiles :
        /\ host = FreshHost(p.tools, p.paths, p.distro_id)
        /\ os_info = get_system_info(host)
        /\ package_manager = detect_package_manager(host)
        /\ installed_browsers = detect_installed_browsers(host, package_manager, os_info)
        /\ last = Idle
        /\ ext = 0
        /\ calls = 0
        /\ proc = AtMenu

\* the call returns: what it left on the host and in self, and what it reported
Returned(op, browser_id, installation_type, r) ==
    /\ host' = r.m.h
    /\ installed_browsers' = r.m.installed
    /\ last' = [op |-> op, browser |-> browser_id, type |-> installation_type,
                ret |-> r.ret, log |-> r.m.log]
    /\ proc' = BackAtMenu(proc)

Install(browser_id, installation_type) ==
    /\ calls < MaxCalls
    /\ \E ok \in SUBSET InstallKeys(browser_id, installation_type) :
          Returned("install", browser_id, installation_type,
                   install_browser(Self, browser_id, installation_type, ok))
    /\ calls' = calls + 1
    /\ UNCHANGED <<os_info, package_manager, ext>>

Uninstall(browser_id) ==
    /\ calls < MaxCalls
    /\ \E ok \in SUBSET {<<"remove">>} :
          Returned("uninstall", browser_id, "", uninstall_browser(Self, browser_id, ok))
    /\ calls' = calls + 1
    /\ UNCHANGED <<os_info, package_manager, ext>>

\* a variant of the refresh that selects the package manager again
RefreshListReselects ==
    /\ calls < MaxCalls
    /\ Returned("refresh", "", "", Return(Refresh(Self), TRUE))
    /\ calls' = calls + 1
    /\ package_manager' = detect_package_manager(host)
    /\ UNCHANGED <<os_info, ext>>

\* display_main_menu, choice 3
RefreshList ==
    /\ calls < MaxCalls
    /\ Returned("refresh", "", "", Return(Refresh(Self), TRUE))
    /\ calls' = calls + 1
    /\ UNCHANGED <<os_info, package_manager, ext>>

\* what something other than this program can add to or take from the host
\* between two calls: a native package, a snap, a flatpak application, one of
\* the files the detection looks for, an executable
Toggle(S, x) == IF x \in S THEN S \ {x} ELSE S \cup {x}

\* a snap that is none of the registry's: the codec package of the chromium snap
ForeignSnap == <<"chromium", "ffmpeg">>

HostChange ==
    /\ ext < MaxExternal
    /\ ext' = ext + 1
    /\ \/ \E b \in CalledBrowsers, i \in {1} :
             \/ /\ Database(package_manager) = "dpkg"
                /\ host' = [host EXCEPT !.dpkg = Toggle(@, PackageNames(b, os_info)[i])]
             \/ /\ Database(package_manager) = "rpm"
                /\ host' = [host EXCEPT !.rpm = Toggle(@, PackageNames(b, os_info)[i])]
             \/ /\ Database(package_manager) = "pacman"
                /\ host' = [host EXCEPT !.pacman = Toggle(@, PackageNames(b, os_info)[i])]
             \/ host' = [host EXCEPT !.snaps = Toggle(@, browsers[b].snap)]
             \/ host' = [host EXCEPT !.flatpaks = Toggle(@, browsers[b].flatpak)]
       \/ host' = [host EXCEPT !.snaps = Toggle(@, ForeignSnap)]
       \/ \E path \in {FirefoxPath, chrome_paths[1]} :
             host' = [host EXCEPT !.paths = Toggle(@, path)]
       \/ \E t \in {"snap", "flatpak"} : host' = [host EXCEPT !.tools = Toggle(@, t)]
    /\ UNCHANGED <<os_info, package_manager, installed_browsers, last, calls, proc>>

Next ==
    \/ \E b \in CalledBrowsers \cup {"netscape"}, t \in InstallationTypes : Install(b, t)
    \/ \E b \in CalledBrowsers \cup {"netscape"} : Uninstall(b)
    \/ RefreshList

Spec == Init /\ [][Next]_vars

\* the same engine on a host that other programs change between the calls
NextHost ==
    \/ \E b \in CalledBrowsers \cup {"netscape"}, t \in InstallationTypes : Install(b, t)
    \/ \E b \in CalledBrowsers \cup {"netscape"} : Uninstall(b)
    \/ RefreshList
    \/ HostChange

SpecHost == Init /\ [][NextHost]_vars

\* the refresh of the browser list on a host that other programs change between
\* the calls
NextDrift ==
    \/ RefreshList
    \/ HostChange

SpecDrift == Init /\ [][NextDrift]_vars

\* the value of an attribute of self that __init__ has not assigned yet
Unset == "unset"

\* the executables detect_package_manager probes for
SelectTools == {"apt", "dnf", "yum", "pacman", "zypper", "snap", "flatpak"}

\* the distribution ids construction is tried on: the ids of the table, and ids
\* that are not in it although they share a word with one that is
IdWords ==
    { <<"debian">>, <<"raspbian">>, <<"ubuntu">>, <<"linuxmint">>, <<"pop">>,
      <<"elementary">>, <<"fedora">>, <<"rhel">>, <<"centos">>, <<"rocky">>,
      <<"almalinux">>, <<"arch">>, <<"manjaro">>, <<"endeavouros">>,
      <<"opensuse", "leap">>, <<"opensuse", "tumbleweed">>, <<"suse">>,
      <<"gentoo">>, <<"kali">>, <<"opensuse">>, <<"ubuntu", "core">> }

\* the ways of spelling the words in lower and upper case
Spellings(words) ==
    { [i \in 1..Len(words) |-> Tok(words[i], u[i])] : u \in [1..Len(words) -> BOOLEAN] }

RawIds == UNION {Spellings(words) : words \in IdWords}

\* before __init__ runs: any set of package-manager executables, any id
Boot ==
    \E tools \in SUBSET SelectTools, distro_id \in RawIds :
        /\ host = FreshHost(tools, {}, distro_id)
        /\ os_info = Unset
        /\ package_manager = Unset
        /\ installed_browsers = <<>>
        /\ last = [Idle EXCEPT !.op = "boot"]
        /\ ext = 0
        /\ calls = 0
        /\ proc = [AtMenu EXCEPT !.pc = "construct"]

\* BrowserManager.__init__, lines 59, 60 and 203
Construct ==
    /\ last.op = "boot"
    /\ os_info' = get_system_info(host)
    /\ package_manager' = detect_package_manager(host)
    /\ installed_browsers' = detect_installed_browsers(host, package_manager', os_info')
    /\ last' = Idle
    /\ proc' = BackAtMenu(proc)
    /\ UNCHANGED <<host, ext, calls>>

NextBoot ==
    \/ Construct
    \/ last.op # "boot" /\ RefreshList

\* the construction of the engine on every host of Boot
SpecBoot == Boot /\ [][NextBoot]_vars

\* the start of the script on a host of HostProfiles, before line 45
Start ==
    \E p \in HostProfiles :
        /\ host = FreshHost(p.tools, p.paths, p.distro_id)
        /\ os_info = Unset
        /\ package_manager = Unset
        /\ installed_browsers = <<>>
        /\ last = [Idle EXCEPT !.op = "boot"]
        /\ ext = 0
        /\ calls = 0
        /\ proc = [AtMenu EXCEPT !.pc = "bootstrap"]

\* sys.exit(code), with or without the goodbye message before it
Exited(p, code, farewell) ==
    [p EXCEPT !.pc = "exited", !.code = code, !.farewell = farewell]

\* check_and_install_dependencies, lines 16-42 and 45: with the modules there the
\* script goes on; else `sudo apt-get install` runs and the script exits, with 0
\* when it succeeded and with 1 when it failed (the python3-* packages it adds
\* are none of the browsers' packages)
Bootstrap ==
    /\ proc.pc = "bootstrap"
    /\ \E missing_packages \in BOOLEAN, delivered \in BOOLEAN :
          proc' = IF ~missing_packages THEN [proc EXCEPT !.pc = "header"]
                  ELSE IF "apt" \in host.tools /\ delivered THEN Exited(proc, "0", FALSE)
                  ELSE Exited(proc, "1", FALSE)
    /\ UNCHANGED <<host, os_info, package_manager, installed_browsers, last, ext, calls>>

\* the imports of lines 48-50 and print_header(), line 978
PrintHeader ==
    /\ proc.pc = "header"
    /\ proc' = [proc EXCEPT !.pc = "construct"]
    /\ UNCHANGED <<host, os_info, package_manager, installed_browsers, last, ext, calls>>

\* a variant of the install menu that offers every browser of the registry
ChooseInstallAny(browser_id, installation_type) ==
    /\ proc.pc = "menu" /\ calls < MaxCalls
    /\ proc' = [proc EXCEPT !.pc = "install", !.browser = browser_id,
                            !.type = installation_type]
    /\ UNCHANGED <<host, os_info, package_manager, installed_browsers, last, ext, calls>>

\* display_install_menu: a browser that is not in the installed set and an
\* installation type are chosen at the prompts, and install_browser is entered
ChooseInstall(browser_id, installation_type) ==
    /\ proc.pc = "menu" /\ calls < MaxCalls
    /\ browser_id \notin DOMAIN installed_browsers
    /\ proc' = [proc EXCEPT !.pc = "install", !.browser = browser_id,
                            !.type = installation_type]
    /\ UNCHANGED <<host, os_info, package_manager, installed_browsers, last, ext, calls>>

\* display_uninstall_menu: a browser of the installed set is chosen and
\* confirmed, and uninstall_browser is entered
ChooseUninstall(browser_id) ==
    /\ proc.pc = "menu" /\ calls < MaxCalls
    /\ browser_id \in DOMAIN installed_browsers
    /\ proc' = [proc EXCEPT !.pc = "uninstall", !.browser = browser_id]
    /\ UNCHANGED <<host, os_info, package_manager, installed_browsers, last, ext, calls>>

\* the call of install_browser runs to its return; when an interrupt was caught
\* by the bare except of lines 514-517 the call is one that reached the clean-up
RunInstall ==
    /\ proc.pc = "install"
    /\ Install(proc.browser, proc.type)
    /\ proc.swallowed => \E i \in 1..Len(last'.log) : last'.log[i].prog = "rm -rf"

RunUninstall == proc.pc = "uninstall" /\ Uninstall(proc.browser)

\* display_main_menu, choice 4: the goodbye message and sys.exit(0)
Quit ==
    /\ proc.pc = "menu"
    /\ proc' = Exited(proc, "0", TRUE)
    /\ UNCHANGED <<host, os_info, package_manager, installed_browsers, last, ext, calls>>

\* KeyboardInterrupt: raised where the process is.  Lines 978 and 979 are outside
\* the try of main, so there it is not caught and the interpreter ends with a
\* traceback, killed by SIGINT or with status 1 depending on its version;
\* inside display_main_menu it reaches the except of line 982, unless it is
\* raised in the `rm -rf` of the Chrome clean-up, whose bare except drops it and
\* lets the call go on.  What an interrupted call had already run is not
\* followed further once the process is gone.
Interrupt ==
    /\ proc.pc \notin {"bootstrap", "exited"}
    /\ proc.interrupts < MaxInterrupts
    /\ \/ /\ proc.pc \in {"header", "construct"}
          /\ \E code \in {"1", "SIGINT"} :
                proc' = [Exited(proc, code, FALSE) EXCEPT !.interrupts = @ + 1]
       \/ /\ proc.pc \in {"menu", "install", "uninstall"}
          /\ proc' = [Exited(proc, "0", TRUE) EXCEPT !.interrupts = @ + 1]
       \/ /\ proc.pc = "install" /\ proc.browser = "chrome" /\ proc.type = "system"
          /\ ~proc.swallowed
          /\ proc' = [proc EXCEPT !.swallowed = TRUE, !.interrupts = @ + 1]
    /\ UNCHANGED <<host, os_info, package_manager, installed_browsers, last, ext, calls>>

NextRun ==
    \/ Bootstrap
    \/ PrintHeader
    \/ proc.pc = "construct" /\ Construct
    \/ \E b \in CalledBrowsers, t \in InstallationTypes : ChooseInstall(b, t)
    \/ \E b \in CalledBrowsers : ChooseUninstall(b)
    \/ RunInstall
    \/ RunUninstall
    \/ proc.pc = "menu" /\ RefreshList
    \/ Quit
    \/ Interrupt

\* one run of the script, from its first line to its exit
SpecRun == Start /\ [][NextRun]_vars

-----------------------------------------------------------------------------
(* Properties *)

\* what detect_installed_browsers returns on the host as it is now
Detected == detect_installed_browsers(host, package_manager, os_info)

\* the browser is found by the active native manager's presence query
NativeFound(b) ==
    /\ Database(package_manager) # "none"
    /\ FirstPresent(host, package_manager, PackageNames(b, os_info)) # None

\* the browser's snap name is in the listing of `snap list`
SnapFound(b) == "snap" \in host.tools /\ InListing(browsers[b].snap, SnapList(host))

\* the browser's application id is in the listing of `flatpak list`
FlatpakFound(b) ==
    "flatpak" \in host.tools /\ InListing(browsers[b].flatpak, FlatpakList(host))

HasType(installed, b, t) == b \in DOMAIN installed /\ installed[b].installation_type = t

\* C1: a browser found both by the native presence query and in the snap listing
\* is recorded by detect_installed_browsers with installation_type 'system'
C1_SystemOverSnap ==
    \A b \in DOMAIN browsers :
        (NativeFound(b) /\ SnapFound(b)) => HasType(Detected, b, "system")

\* C2: the flatpak step does not overwrite an earlier record: found in the snap
\* and flatpak listings and not natively gives 'snap', found natively and in the
\* flatpak listing gives 'system'
C2_FlatpakKeepsEarlier ==
    \A b \in DOMAIN browsers :
        /\ (SnapFound(b) /\ FlatpakFound(b) /\ ~NativeFound(b)) => HasType(Detected, b, "snap")
        /\ (NativeFound(b) /\ FlatpakFound(b)) => HasType(Detected, b, "system")

\* the step is a call of uninstall_browser(b)
UninstallCall(b) == calls' = calls + 1 /\ last'.op = "uninstall" /\ last'.browser = b

\* C3: uninstall_browser on a 'system' record issues the selected manager's remove
\* verb with exactly the record's installed_package
C3_RemovesInstalledPackage ==
    [][\A b \in DOMAIN browsers :
          (HasType(installed_browsers, b, "system") /\ UninstallCall(b))
              => /\ last'.log # <<>>
                 /\ last'.log[1].prog = RemoveVerb(package_manager)
                 /\ last'.log[1].args = <<installed_browsers[b].installed_package>>]_vars

\* the positions of the log at which the command `prog` was run
Pos(prog) == {i \in 1..Len(last.log) : last.log[i].prog = prog}

\* the last call was install_browser(b, 'system') for a registered browser
SystemInstall ==
    last.op = "install" /\ last.type = "system" /\ last.browser \in DOMAIN browsers

BothPresent == {"snap", "flatpak"} \subseteq host.tools

\* C4 as stated: with snap and flatpak both present, a system install that falls
\* back tries the snap install first and the flatpak install only after the snap
\* install failed
C4_SnapBeforeFlatpak ==
    (SystemInstall /\ BothPresent) =>
        \A i \in Pos("flatpak install") :
            \E j \in Pos("snap install") : j < i /\ ~last.log[j].r

\* C4 amended: with snap and flatpak both present, a system install that falls
\* back tries the flatpak install first and the snap install only after the
\* flatpak install failed; for chrome and brave as for every other browser
C4_FlatpakBeforeSnap ==
    (SystemInstall /\ BothPresent) =>
        \A i \in Pos("snap install") :
            \E j \in Pos("flatpak install") : j < i /\ ~last.log[j].r

C4_Witness ==
    /\ SystemInstall /\ BothPresent /\ last.browser = "brave"
    /\ \E i \in Pos("snap install") :
          \E j \in Pos("flatpak install") : j < i /\ ~last.log[j].r

\* C5: a system install that succeeds on the native path (no alternative was
\* tried) leaves a host on which the next detect_installed_browsers records the
\* browser with installation_type 'system'
C5_NativeInstallIsSystem ==
    (SystemInstall /\ last.ret /\ Pos("flatpak install") = {} /\ Pos("snap install") = {})
        => HasType(Detected, last.browser, "system")

\* C6: whenever install_browser returns True, self.installed_browsers is the
\* result of a detect_installed_browsers run after every command of the call:
\* the run is the last line of the log and its result is what self holds
C6_SuccessRefreshes ==
    (last.op = "install" /\ last.ret) =>
        /\ last.log # <<>>
        /\ last.log[Len(last.log)] = DetectMark
        /\ installed_browsers = Detected

C6_Witness ==
    /\ SystemInstall /\ last.ret /\ last.browser = "chrome"
    /\ \E i \in Pos("flatpak install") : last.log[i].r
    /\ HasType(installed_browsers, "chrome", "flatpak")

\* C7: when install_browser or uninstall_browser returns, with success or with
\* failure, self.installed_browsers is what detect_installed_browsers returns on
\* the host as the call left it
C7_NeverStale ==
    [][(calls' = calls + 1 /\ last'.op \in {"install", "uninstall"})
          => installed_browsers' =
                 detect_installed_browsers(host', package_manager', os_info')]_vars

\* C8: an uninstall_browser call that ran its removal command recomputes the
\* installed set afterwards, whether the command succeeded or failed
C8_UninstallAlwaysRefreshes ==
    (last.op = "uninstall" /\ last.log # <<>>) => last.log[Len(last.log)] = DetectMark

\* C9: uninstall_browser on a record with installation_type 'manual' returns
\* False, runs no command and leaves the installed set (and the host) as it was
C9_ManualUninstallRefused ==
    [][\A b \in DOMAIN browsers :
          (HasType(installed_browsers, b, "manual") /\ UninstallCall(b))
              => /\ ~last'.ret
                 /\ last'.log = <<>>
                 /\ installed_browsers' = installed_browsers
                 /\ host' = host]_vars

C9_Witness ==
    /\ last.op = "uninstall" /\ ~last.ret /\ last.log = <<>>
    /\ HasType(installed_browsers, last.browser, "manual")

\* C10: uninstall_browser for an id that is not in the installed set returns
\* False, runs no command and leaves the installed set (and the host) as it was
C10_AbsentUninstallRefused ==
    [][\A b \in CalledBrowsers \cup {"netscape"} :
          (b \notin DOMAIN installed_browsers /\ UninstallCall(b))
              => /\ ~last'.ret
                 /\ last'.log = <<>>
                 /\ installed_browsers' = installed_browsers
                 /\ host' = host]_vars

C10_Witness ==
    /\ last.op = "uninstall" /\ ~last.ret /\ last.log = <<>>
    /\ last.browser \notin DOMAIN installed_browsers

\* the step is a call of install_browser(b, t)
InstallCall(b, t) ==
    calls' = calls + 1 /\ last'.op = "install" /\ last'.browser = b /\ last'.type = t

\* C11: install_browser with an id that is not in the registry returns False for
\* every requested backend, with no probe and no command, and leaves the
\* installed set (and the host) as it was
C11_UnknownIdRefused ==
    [][\A t \in InstallationTypes :
          InstallCall("netscape", t)
              => /\ ~last'.ret
                 /\ last'.log = <<>>
                 /\ installed_browsers' = installed_browsers
                 /\ host' = host]_vars

C11_Witness ==
    /\ last.op = "install" /\ last.browser = "netscape" /\ last.type = "flatpak"
    /\ ~last.ret /\ last.log = <<>>
    /\ "flatpak" \in host.tools

\* the commands that install a browser, and the queries of the post-install checks
InstallCommands ==
    {"apt-get install", "dpkg -i", "apt install ./deb", "dnf install", "dnf install ./rpm",
     "pacman -S", "yay -S", "pamac install", "pamac build", "makepkg -si",
     "zypper install", "flatpak install", "snap install"}

CheckQueries == {"dpkg -l | grep -q", "rpm -q", "pacman -Q"}

\* the line of the log is a step by which an installation path succeeded: an
\* install command or a check query that exited 0, or a probe that found the
\* browser's executable
PathSucceeded(e) ==
    /\ e.r
    /\ \/ e.prog \in InstallCommands \cup CheckQueries
       \/ e.prog = "which" /\ \A t \in Tools : e.args # << <<t>> >>

\* C12: install_browser of a registered browser returns a boolean whatever
\* commands fail and whatever executables are absent, and it returns False when
\* every path it tried has failed
C12_FailureReturnsFalse ==
    (last.op = "install" /\ last.browser \in DOMAIN browsers) =>
        /\ last.ret \in BOOLEAN
        /\ last.ret => \E i \in 1..Len(last.log) : PathSucceeded(last.log[i])

\* the manager the stated priority order gives for a set of executables
ClaimedManager(tools) ==
    IF "apt" \in tools THEN "apt"
    ELSE IF "dnf" \in tools THEN "dnf"
    ELSE IF "yum" \in tools THEN "yum"
    ELSE IF "pacman" \in tools THEN "pacman"
    ELSE IF "zypper" \in tools THEN "zypper"
    ELSE IF "snap" \in tools THEN "snap"
    ELSE IF "flatpak" \in tools THEN "flatpak"
    ELSE "apt"

\* C13: for every subset of the seven executables, detect_package_manager
\* returns the first present of apt, dnf, yum, pacman, zypper, else snap, else
\* flatpak, else the apt descriptor
C13_SelectsByPriority ==
    last.op # "boot" => package_manager = ClaimedManager(host.tools)

C13_Witness ==
    /\ last.op = "init" /\ host.tools = {"zypper", "yum", "flatpak", "snap"}
    /\ package_manager = "yum"

\* the id names one of the given ids when its case is ignored
Named(raw, names) ==
    \E n \in names : Len(n) = Len(raw) /\ \A i \in 1..Len(n) : n[i] = raw[i].w

\* the documented table
DocumentedFamily(raw) ==
    IF Named(raw, {<<"debian">>, <<"raspbian">>}) THEN "debian"
    ELSE IF Named(raw, {<<"ubuntu">>, <<"linuxmint">>, <<"pop">>, <<"elementary">>})
    THEN "ubuntu"
    ELSE IF Named(raw, {<<"fedora">>, <<"rhel">>, <<"centos">>, <<"rocky">>, <<"almalinux">>})
    THEN "fedora"
    ELSE IF Named(raw, {<<"arch">>, <<"manjaro">>, <<"endeavouros">>}) THEN "arch"
    ELSE IF Named(raw, {<<"opensuse", "leap">>, <<"opensuse", "tumbleweed">>, <<"suse">>})
    THEN "opensuse"
    ELSE "default"

\* C15: the family get_system_info computes is the documented table applied to
\* the raw distribution id without regard to case; an id outside the table
\* gives 'default'
C15_FamilyTable ==
    last.op # "boot" => os_info = DocumentedFamily(host.distro_id)

C15_Witness ==
    /\ last.op = "init"
    /\ host.distro_id = <<Tok("opensuse", TRUE), Tok("tumbleweed", FALSE)>>
    /\ os_info = "opensuse"

\* C14: the package manager chosen at construction is kept for the whole run:
\* no install, uninstall or refresh, and no change of the executables on the
\* host, changes self.package_manager
C14_ManagerKept ==
    [][package_manager' = package_manager]_vars

C14_Witness ==
    /\ last.op = "refresh"
    /\ package_manager = "snap"
    /\ "snap" \notin host.tools
    /\ detect_package_manager(host) # package_manager

C16_RegistryResolves ==
    /\ \A b \in DOMAIN browsers :
          /\ browsers[b].package["default"] # <<>>
          /\ \A family \in Families : PackageNames(b, family) # <<>>
    /\ \A b \in DOMAIN installed_browsers :
          /\ installed_browsers[b].package = browsers[b].package
          /\ installed_browsers[b].snap = browsers[b].snap
          /\ installed_browsers[b].flatpak = browsers[b].flatpak

C16_Witness ==
    /\ os_info = "default" /\ last.op = "install" /\ last.type = "system"
    /\ last.browser = "firefox" /\ last.ret
    /\ "firefox" \in DOMAIN installed_browsers

\* the native manager an install command of the standard path belongs to
ManagerOf(prog) ==
    CASE prog = "apt-get install" -> "apt"
      [] prog = "dnf install" -> "dnf"
      [] prog = "pacman -S" -> "pacman"
      [] prog = "zypper install" -> "zypper"
      [] OTHER -> "none"

\* the positions of the log at which a native install command was run
NativeInstalls == {i \in 1..Len(last.log) : ManagerOf(last.log[i].prog) # "none"}

\* C18: a system install of a browser other than chrome and brave, on a host
\* where a native manager was selected, issues its native install commands
\* through the selected manager, with candidate names of the host's family
C18_InstallsThroughSelected ==
    (SystemInstall /\ last.browser \notin {"chrome", "brave"}
        /\ package_manager \in Range(NativeManagers)) =>
        /\ NativeInstalls # {}
        /\ \A i \in NativeInstalls :
              /\ ManagerOf(last.log[i].prog) = package_manager
              /\ last.log[i].args[1] \in Range(PackageNames(last.browser, os_info))

\* the host has none of the native managers, has snap and has no flatpak
SnapOnlyHost ==
    /\ FirstTool(host, NativeManagers) = "none"
    /\ "snap" \in host.tools /\ "flatpak" \notin host.tools

\* C19: on a host with no native manager, with snap and without flatpak, the
\* selected manager is snap, and a system install of any registered browser
\* runs the snap install of the browser's registered snap name and returns
\* True exactly when that command succeeded
C19_SnapOnlyHostUsesSnap ==
    (SnapOnlyHost /\ SystemInstall) =>
        /\ package_manager = "snap"
        /\ \E i \in Pos("snap install") :
              /\ last.log[i].args = <<browsers[last.browser].snap>>
              /\ last.ret <=> last.log[i].r

\* the commands a call with the 'snap' backend may run, and those of 'flatpak'
SnapBackendCommands == {"which", "snap install", DetectMark.prog}

FlatpakBackendCommands == {"which", FlathubAdd.prog, "flatpak install", DetectMark.prog}

\* the last call was install_browser(b, t) for a registered browser
BackendInstall(t) ==
    last.op = "install" /\ last.type = t /\ last.browser \in DOMAIN browsers

\* the commands of the log are all among `allowed`
OnlyRuns(allowed) == \A i \in 1..Len(last.log) : last.log[i].prog \in allowed

\* no command that installs anything was run
NothingInstalled == \A i \in 1..Len(last.log) : last.log[i].prog \notin InstallCommands

\* C20: only the 'system' backend falls back to another backend: a 'snap'
\* install runs no native-manager and no flatpak command, a 'flatpak' install
\* no native-manager and no snap command, and when the executable of the
\* requested backend is absent the call returns False and installs nothing
C20_NoCrossBackendFallback ==
    /\ BackendInstall("snap") =>
          /\ OnlyRuns(SnapBackendCommands)
          /\ "snap" \notin host.tools => (~last.ret /\ NothingInstalled)
    /\ BackendInstall("flatpak") =>
          /\ OnlyRuns(FlatpakBackendCommands)
          /\ "flatpak" \notin host.tools => (~last.ret /\ NothingInstalled)

C20_Witness ==
    /\ BackendInstall("snap") /\ "snap" \notin host.tools
    /\ "flatpak" \in host.tools
    /\ ~last.ret
    /\ last.log = <<Entry(Cmd("which", << <<"snap">> >>), FALSE)>>

\* the k-th position of the log, in the order of the log, at which a native
\* install command was run
Attempt(k) ==
    CHOOSE i \in NativeInstalls : Cardinality({j \in NativeInstalls : j < i}) = k - 1

\* the post-install check that follows the install command at position i of the
\* log passed: the probe found the executable, or the query exited 0
CheckPassed(i) ==
    /\ i + 1 <= Len(last.log)
    /\ \/ last.log[i + 1].prog = "which" /\ last.log[i + 1].r
       \/ /\ i + 2 <= Len(last.log)
          /\ last.log[i + 2].prog \in CheckQueries /\ last.log[i + 2].r

\* the last call was install_browser(b, 'system') for a browser without
\* special handling
StandardInstall == SystemInstall /\ last.browser \notin {"chrome", "brave"}

\* C21: a system install of a browser other than chrome and brave attempts the
\* candidate names in the order of the list, one install command each; when the
\* check of a candidate passes the call returns True and that candidate is the
\* last one attempted, so a candidate is attempted only after the check of
\* every earlier one failed
C21_CandidatesInOrder ==
    StandardInstall =>
        /\ Cardinality(NativeInstalls) <= Len(PackageNames(last.browser, os_info))
        /\ \A k \in 1..Cardinality(NativeInstalls) :
              /\ last.log[Attempt(k)].args = <<PackageNames(last.browser, os_info)[k]>>
              /\ CheckPassed(Attempt(k)) =>
                    last.ret /\ k = Cardinality(NativeInstalls)
              /\ k < Cardinality(NativeInstalls) => ~CheckPassed(Attempt(k))

\* the check of firefox-esr failed and the second candidate, firefox, passed
C21_Witness ==
    /\ StandardInstall /\ last.browser = "firefox" /\ last.ret
    /\ Cardinality(NativeInstalls) = 2
    /\ last.log[Attempt(1)].args = << <<"firefox", "esr">> >>
    /\ ~CheckPassed(Attempt(1))
    /\ last.log[Attempt(2)].args = << <<"firefox">> >>
    /\ CheckPassed(Attempt(2))

\* C22: uninstall_browser on a 'system', 'snap' or 'flatpak' record runs one
\* removal command, chosen by the record's installation_type alone: for 'snap'
\* the snap remove of the browser's snap name, for 'flatpak' the flatpak
\* uninstall of its application id; when that command fails nothing else is run
\* and False is returned
C22_SingleRemovalAttempt ==
    [][\A b \in DOMAIN browsers :
          (b \in DOMAIN installed_browsers /\ UninstallCall(b)
              /\ installed_browsers[b].installation_type \in InstallationTypes)
              => /\ Len(last'.log) \in {1, 2}
                 /\ HasType(installed_browsers, b, "snap") =>
                       /\ last'.log[1].prog = "snap remove"
                       /\ last'.log[1].args = <<browsers[b].snap>>
                 /\ HasType(installed_browsers, b, "flatpak") =>
                       /\ last'.log[1].prog = "flatpak uninstall"
                       /\ last'.log[1].args = <<browsers[b].flatpak>>
                 /\ Len(last'.log) = 2 => (last'.log[1].r /\ last'.log[2] = DetectMark)
                 /\ ~last'.log[1].r => (Len(last'.log) = 1 /\ ~last'.ret)]_vars

\* the snap remove of a 'snap' record failed: it is the only command of the call
C22_Witness ==
    /\ last.op = "uninstall" /\ ~last.ret
    /\ HasType(installed_browsers, last.browser, "snap")
    /\ last.log = <<Entry(Cmd("snap remove", <<browsers[last.browser].snap>>), FALSE)>>

\* what the native, snap and flatpak steps of the detection have recorded on
\* the host as it is now, before the file-system checks
BeforeManual ==
    FlatpakStep(host, SnapStep(host, SystemStep(host, package_manager, os_info)))

\* C23: the detection gives a browser the installation_type 'manual' only when
\* the native, snap and flatpak steps recorded nothing for it; a record of
\* those steps is returned as it is
C23_ManualOnlyWhenUnrecorded ==
    \A b \in DOMAIN browsers :
        /\ b \in DOMAIN BeforeManual =>
              (b \in DOMAIN Detected /\ Detected[b] = BeforeManual[b])
        /\ HasType(Detected, b, "manual") => b \notin DOMAIN BeforeManual

\* the Mozilla binaries are on a host where the flatpak step records firefox
C23_Witness ==
    /\ FirefoxPath \in host.paths
    /\ HasType(BeforeManual, "firefox", "flatpak")
    /\ HasType(Detected, "firefox", "flatpak")
    /\ HasType(installed_browsers, "firefox", "flatpak")

\* C24 as stated: an interrupt that arrives after the dependency bootstrap ends
\* the process with the goodbye message and exit status 0, and the process
\* exits with status 1 only out of the dependency bootstrap
C24_InterruptExitsCleanly ==
    [][/\ proc'.interrupts > proc.interrupts =>
              (proc'.pc = "exited" /\ proc'.code = "0" /\ proc'.farewell)
       /\ (proc'.code = "1" /\ proc.code # "1") => proc.pc = "bootstrap"]_vars

\* an install command of the log exited 0
SomeInstallSucceeded ==
    \E i \in 1..Len(last.log) : last.log[i].prog \in InstallCommands /\ last.log[i].r

\* C25 as stated: when install_browser returns True, for any installation
\* type, an install command of the call exited 0 and the browser is a key of
\* self.installed_browsers; so a 'snap' or 'flatpak' install whose install
\* command failed returns False
C25_TrueMeansInstalled ==
    (last.op = "install" /\ last.browser \in DOMAIN browsers /\ last.ret) =>
        /\ SomeInstallSucceeded
        /\ last.browser \in DOMAIN installed_browsers

\* the last call was install_browser('chrome', 'system')
ChromeInstall == SystemInstall /\ last.browser = "chrome"

\* C26 as stated: in a system install of chrome a failed wget is followed by
\* the curl download before any command that installs a package, and no such
\* command is run when curl has failed too
C26_CurlAfterWgetFailure ==
    ChromeInstall =>
        \A i \in Pos("wget") :
            ~last.log[i].r =>
                /\ i + 1 <= Len(last.log)
                /\ last.log[i + 1].prog = "curl"
                /\ ~last.log[i + 1].r =>
                      \A j \in (i + 2)..Len(last.log) :
                          last.log[j].prog \notin InstallCommands

\* the steps that set up a vendor's repository: the key, the repository entry,
\* the refresh of the package index
SetupSteps ==
    {"curl keyring", "tee sources.list.d", "apt-get update",
     "dnf config-manager --add-repo", "rpm --import", "zypper addrepo", "zypper refresh"}

\* the commands that install the downloaded file, or the file converted from it
LocalInstalls == {"dpkg -i", "apt install ./deb", "alien --to-rpm", "dnf install ./rpm"}

\* the last call was install_browser(b, 'system') for chrome or brave
VendorInstall == SystemInstall /\ last.browser \in {"chrome", "brave"}

VendorExecutables == {GoogleChromeStable, GoogleChrome, BraveBrowser, <<"brave">>}

\* the positions of a log at which the presence of the vendor's executable is
\* probed
VendorChecks(log) ==
    {i \in 1..Len(log) : log[i].prog = "which" /\ log[i].args[1] \in VendorExecutables}

\* the position of the first such probe, 0 when there is none
VendorCheck(log) ==
    IF VendorChecks(log) = {} THEN 0
    ELSE CHOOSE i \in VendorChecks(log) : \A j \in VendorChecks(log) : i <= j

\* the command lines of the first n lines of a log, without their results
Steps(log, n) == [i \in 1..n |-> Cmd(log[i].prog, log[i].args)]

\* a step of the repository set-up failed during the call that is returning
SetupStepFailed ==
    \E i \in 1..Len(last'.log) : last'.log[i].prog \in SetupSteps /\ ~last'.log[i].r

\* an alternative backend installed the browser after position c of the log
FallbackInstalled(log, c) ==
    \E j \in (c + 1)..Len(log) : log[j].prog \in {"flatpak install", "snap install"} /\ log[j].r

\* the log of the same call when every remote source delivers and no step fails
SmoothLog(b) == install_browser(Self, b, "system", InstallKeys(b, "system")).m.log

\* C28: when a step of the repository set-up of chrome or brave fails, the call
\* still runs, up to the presence check, the same commands as when no step
\* fails; the alternatives are probed when the check fails, and the call returns
\* True exactly when the check passed or an alternative installed the browser
C28_SetupFailureDoesNotAbort ==
    [][\A b \in {"chrome", "brave"} :
          (InstallCall(b, "system") /\ SetupStepFailed) =>
              /\ VendorCheck(last'.log) > 0
              /\ VendorCheck(last'.log) = VendorCheck(SmoothLog(b))
              /\ Steps(last'.log, VendorCheck(last'.log))
                    = Steps(SmoothLog(b), VendorCheck(last'.log))
              /\ ~last'.log[VendorCheck(last'.log)].r =>
                    \E j \in (VendorCheck(last'.log) + 1)..Len(last'.log) :
                        /\ last'.log[j].prog = "which"
                        /\ last'.log[j].args = << <<"flatpak">> >>
              /\ last'.ret <=> \/ last'.log[VendorCheck(last'.log)].r
                               \/ FallbackInstalled(last'.log, VendorCheck(last'.log))]_vars

\* brave on a Debian family host: the key could not be fetched, every other
\* step of the set-up ran and succeeded, and the browser was installed
C28_Witness ==
    /\ SystemInstall /\ last.browser = "brave" /\ last.ret
    /\ \E i \in Pos("curl keyring"), j \in Pos("tee sources.list.d"),
          k \in Pos("apt-get install") :
          /\ i < j /\ j < k
          /\ ~last.log[i].r /\ last.log[j].r /\ last.log[k].r
          /\ last.log[k].args = <<BraveBrowser>>

\* the commands of the alternatives that follow a failed system path
FallbackCommands == {FlathubAdd.prog, "flatpak install", "snap install"}

\* the positions of the log at which the alternatives are probed or run
FallbackPositions ==
    {i \in 1..Len(last.log) :
        \/ last.log[i].prog \in FallbackCommands
        \/ last.log[i].prog = "which" /\ last.log[i].args \in {<< <<"flatpak">> >>, << <<"snap">> >>}}

\* C29: every call of install_browser returns True or False after at most 14
\* shell invocations (the longest is chrome on a Debian family host: eight of
\* the system path, five of the alternatives and the detection); no install
\* command is run twice with the same names, each alternative backend is probed
\* and tried at most once, flatpak before snap, and once the alternatives are
\* entered no command of the system path is run again
C29_BoundedNoRepeat ==
    last.op = "install" =>
        /\ last.ret \in BOOLEAN
        /\ Len(last.log) <= 14
        /\ \A i, j \in 1..Len(last.log) :
              (/\ i < j
               /\ \/ last.log[i].prog \in InstallCommands
                  \/ last.log[i].prog = "which" /\ i \in FallbackPositions)
              => Cmd(last.log[i].prog, last.log[i].args)
                    # Cmd(last.log[j].prog, last.log[j].args)
        /\ \A i \in FallbackPositions, j \in 1..Len(last.log) :
              i < j => (j \in FallbackPositions \/ last.log[j] = DetectMark)
        /\ \A i \in Pos("snap install"), j \in Pos("flatpak install") : j < i

\* a system install that went through the whole chain: its native candidates,
\* then flatpak, then snap, and returned False
C29_Witness ==
    /\ SystemInstall /\ ~last.ret
    /\ NativeInstalls # {}
    /\ \E i \in NativeInstalls, j \in Pos("flatpak install"), k \in Pos("snap install") :
          i < j /\ j < k /\ k = Len(last.log)

\* the system path of the last call installed the browser: the check of a
\* native candidate passed, or the vendor's executable was found
SystemPathSucceeded ==
    \/ \E k \in 1..Cardinality(NativeInstalls) : CheckPassed(Attempt(k))
    \/ \E i \in VendorChecks(last.log) : last.log[i].r

\* C30: in a system install whose native or vendor installation succeeded, no
\* alternative backend is probed and no snap or flatpak install command is
\* run; the alternatives are entered only after the system path has failed
C30_FallbackOnlyAfterFailure ==
    SystemInstall =>
        /\ SystemPathSucceeded =>
              /\ last.ret
              /\ FallbackPositions = {}
              /\ Pos("snap install") = {} /\ Pos("flatpak install") = {}
        /\ FallbackPositions # {} => ~SystemPathSucceeded

\* chrome installed from the downloaded package on a host that has snap and
\* flatpak: neither was touched
C30_Witness ==
    /\ ChromeInstall /\ last.ret /\ BothPresent
    /\ SystemPathSucceeded
    /\ Pos("dpkg -i") # {}
    /\ FallbackPositions = {}

\* the positions of the browser's candidate list whose package is in the
\* database of the active manager
PresentAt(b) ==
    {i \in 1..Len(PackageNames(b, os_info)) :
        PackageNames(b, os_info)[i] \in InstalledIn(host, Database(package_manager))}

\* what the native step of the detection records on the host as it is now
SystemRecords == SystemStep(host, package_manager, os_info)

\* C31: with a native active manager the native step of the detection records
\* a browser exactly when one of its candidates is present, with the
\* installation_type 'system' and the earliest present candidate of the list
\* as installed_package; a 'system' record of the detection's result is such a
\* record; with snap, flatpak or no manager active there is no 'system' record
C31_EarliestPresentCandidate ==
    /\ \A b \in DOMAIN browsers :
          /\ b \in DOMAIN SystemRecords <=>
                (package_manager \in Range(NativeManagers) /\ PresentAt(b) # {})
          /\ b \in DOMAIN SystemRecords =>
                /\ SystemRecords[b].installation_type = "system"
                /\ \E i \in PresentAt(b) :
                      /\ \A j \in PresentAt(b) : i <= j
                      /\ SystemRecords[b].installed_package = PackageNames(b, os_info)[i]
          /\ HasType(Detected, b, "system") =>
                (b \in DOMAIN SystemRecords /\ Detected[b] = SystemRecords[b])
    /\ package_manager \notin Range(NativeManagers) =>
          \A b \in DOMAIN browsers : ~HasType(Detected, b, "system")

\* both candidates of firefox are installed on a Debian host: the record names
\* the first of the list, firefox-esr
C31_Witness ==
    /\ package_manager = "apt"
    /\ {<<"firefox", "esr">>, <<"firefox">>} \subseteq host.dpkg
    /\ PackageNames("firefox", os_info) = << <<"firefox", "esr">>, <<"firefox">> >>
    /\ HasType(Detected, "firefox", "system")
    /\ Detected["firefox"].installed_package = <<"firefox", "esr">>
    /\ HasType(installed_browsers, "firefox", "system")

\* C32 as stated: the detection gives a browser the installation_type 'snap'
\* only when its snap name is one of the names of the snap listing
C32_SnapNameIsWholeToken ==
    \A b \in DOMAIN browsers :
        HasType(Detected, b, "snap") => browsers[b].snap \in SnapList(host)

\* C33: in every call of install_browser a flatpak install command comes
\* directly after the command that adds the Flathub remote, and that one
\* directly after a probe that found the flatpak executable, which is on the
\* host; the remote is added for no other purpose
C33_FlathubAddedFirst ==
    last.op = "install" =>
        /\ \A i \in Pos("flatpak install") :
              /\ i >= 3
              /\ last.log[i - 1].prog = FlathubAdd.prog
              /\ "flatpak" \in host.tools
        /\ \A i \in Pos(FlathubAdd.prog) :
              /\ i >= 2 /\ i + 1 \in Pos("flatpak install")
              /\ last.log[i - 1] = Entry(Cmd("which", << <<"flatpak">> >>), TRUE)

\* the system path of chrome failed; the remote was added and the flatpak
\* application installed
C33_Witness ==
    /\ ChromeInstall /\ last.ret /\ ~SystemPathSucceeded
    /\ \E i \in Pos("flatpak install") :
          /\ last.log[i].r
          /\ last.log[i].args = <<browsers["chrome"].flatpak>>
          /\ last.log[i - 1] = Entry(FlathubAdd, TRUE)

\* C34: a call of install_browser that returns False leaves
\* self.installed_browsers as it was before the call, whatever the commands of
\* the call did to the host
C34_FailureKeepsInstalledSet ==
    [][\A b \in DOMAIN browsers \cup {"netscape"}, t \in InstallationTypes :
          (InstallCall(b, t) /\ ~last'.ret) => installed_browsers' = installed_browsers]_vars

\* a system install of brave wrote the repository entry and then failed on
\* every path, on a host whose browsers had changed since the installed set
\* was computed: the set is still the one from before
C34_Witness ==
    /\ SystemInstall /\ last.browser = "brave" /\ ~last.ret
    /\ \E i \in Pos("tee sources.list.d") : last.log[i].r
    /\ host.repos # {}
    /\ Pos("snap install") # {}
    /\ installed_browsers # Detected

\* the step is the refresh of the browser list
RefreshCall == calls' = calls + 1 /\ last'.op = "refresh"

\* C35: in a run of the script install_browser is called only for a registered
\* browser that is not in the installed set and uninstall_browser only for one
\* that is, so that uninstall_browser never returns at its "not installed"
\* test without a command; the refresh of the menu makes the installed set the
\* result of detect_installed_browsers on the host
C35_MenuOffersOnlyApplicable ==
    [][/\ \A b \in DOMAIN browsers \cup {"netscape"} :
             /\ \A t \in InstallationTypes :
                   InstallCall(b, t) =>
                       (b \in DOMAIN browsers /\ b \notin DOMAIN installed_browsers)
             /\ UninstallCall(b) =>
                   /\ b \in DOMAIN installed_browsers
                   /\ HasType(installed_browsers, b, "manual") \/ last'.log # <<>>
       /\ RefreshCall =>
             installed_browsers' = detect_installed_browsers(host', package_manager', os_info')]_vars

\* firefox was installed from the menu and then removed from the menu
C35_Witness ==
    /\ proc.pc = "menu" /\ calls = 2
    /\ last.op = "uninstall" /\ last.browser = "firefox" /\ last.ret
    /\ last.log # <<>>
    /\ "firefox" \notin DOMAIN installed_browsers

====
